---- MODULE Spec2Model ----
(***************************************************************************)
(* TaskMasterTS: the task store (TaskManager), the reducer (taskReducer)   *)
(* and the handlers that dispatch to it, from src/src/components/TodoApp.tsx *)
(***************************************************************************)
EXTENDS Integers, Sequences, FiniteSets, TLC

VARIABLES
    state,       \* the TaskState held by useReducer: tasks, filter, searchQuery, selectedPriority
    taskMap,     \* TaskManager.taskMap of the module-level singleton, in insertion order
    issued,      \* the identifiers crypto.randomUUID() has returned so far
    now,         \* the last reading of the clock (new Date())
    steps,       \* how many actions have been dispatched
    view,        \* what useTasks last returned: filteredTasks and stats
    lastAction   \* the type and the addressed id of the action last handed to taskReducer

vars == <<state, taskMap, issued, now, steps, view, lastAction>>

(* ------------------------------ bounds -------------------------------- *)

\* how many ADD_TASK actions a run may dispatch
MaxAdds == 3

\* how many actions a run may dispatch
MaxSteps == 5

\* the clock reads 0..MaxClock
MaxClock == 1

\* identifiers crypto.randomUUID() can return
UuidPool == {"u1", "u2", "u3"}

\* what the user can type in the title and description inputs of the form
FormTitles == {<<" ", "a", " ">>, <<" ">>, <<>>}
FormDescriptions == {<<"b", " ">>}
FormPriorities == {"high"}

\* values the three filter setters are called with
FilterValues == {"all", "active", "completed"}
SearchValues == {<<>>, <<"B", " ">>}
PriorityFilterValues == {"all", "high"}

(* ------------------------------ strings ------------------------------- *)

\* String.prototype.trim on a string given as a sequence of characters
IsSpace(c) == c = " "

RECURSIVE TrimStart(_)
TrimStart(s) ==
    IF s # <<>> /\ IsSpace(Head(s)) THEN TrimStart(Tail(s)) ELSE s

RECURSIVE TrimEnd(_)
TrimEnd(s) ==
    IF s # <<>> /\ IsSpace(s[Len(s)]) THEN TrimEnd(SubSeq(s, 1, Len(s) - 1)) ELSE s

Trim(s) == TrimEnd(TrimStart(s))

(* ------------------------------- tasks -------------------------------- *)

\* an absent optional dueDate is the empty sequence, a date d is <<d>>
Undefined == <<>>

TaskFields == {"id", "title", "description", "completed", "priority",
               "createdAt", "dueDate", "tags"}

\* { ...a, ...b } : the fields of b overwrite those of a
Spread(a, b) ==
    [f \in (DOMAIN a) \cup (DOMAIN b) |-> IF f \in DOMAIN b THEN b[f] ELSE a[f]]

\* createTask as it would be had it kept the title as typed
CreateTaskUntrimmed(title, description, priority) ==
    [title |-> title, description |-> Trim(description), completed |-> FALSE,
     priority |-> priority, dueDate |-> Undefined, tags |-> <<>>]

\* TaskFactory.createTask(title, description, priority), dueDate and tags defaulted
CreateTask(title, description, priority) ==
    [title |-> Trim(title), description |-> Trim(description), completed |-> FALSE,
     priority |-> priority, dueDate |-> Undefined, tags |-> <<>>]

(* ---------------------------- TaskManager ----------------------------- *)

\* a Map<string, Task> is the sequence of its entries [k, v] in insertion order
RECURSIVE MapIndex(_, _)
MapIndex(m, k) ==
    IF m = <<>> THEN 0
    ELSE IF m[Len(m)].k = k THEN Len(m)
    ELSE MapIndex(SubSeq(m, 1, Len(m) - 1), k)

MapHas(m, k) == MapIndex(m, k) # 0

MapGet(m, k) == m[MapIndex(m, k)].v

MapSet(m, k, v) ==
    IF MapHas(m, k) THEN [m EXCEPT ![MapIndex(m, k)] = [k |-> k, v |-> v]]
    ELSE Append(m, [k |-> k, v |-> v])

MapDelete(m, k) ==
    IF MapHas(m, k)
    THEN SubSeq(m, 1, MapIndex(m, k) - 1) \o SubSeq(m, MapIndex(m, k) + 1, Len(m))
    ELSE m

\* TaskManager.addTask: the map after the call
addTask(m, task) == MapSet(m, task.id, task)

\* updateTask as it would be had it returned the merged task without storing it
updateTaskNotStoring(m, id, updates) ==
    IF ~MapHas(m, id) THEN [found |-> FALSE, taskMap |-> m]
    ELSE [found |-> TRUE, task |-> Spread(MapGet(m, id), updates), taskMap |-> m]

\* TaskManager.updateTask: found is FALSE for the null return
updateTask(m, id, updates) ==
    IF ~MapHas(m, id) THEN [found |-> FALSE, taskMap |-> m]
    ELSE LET updatedTask == Spread(MapGet(m, id), updates)
         IN [found |-> TRUE, task |-> updatedTask, taskMap |-> MapSet(m, id, updatedTask)]

\* TaskManager.deleteTask: the map after the call
deleteTask(m, id) == MapDelete(m, id)

\* TaskManager.getAllTasks
getAllTasks(m) == [i \in 1..Len(m) |-> m[i].v]

(* ------------------------------ reducer ------------------------------- *)

\* state.tasks.map(task => task.id === id ? updatedTask : task)
ReplaceById(tasks, id, updatedTask) ==
    [i \in 1..Len(tasks) |-> IF tasks[i].id = id THEN updatedTask ELSE tasks[i]]

\* !state.tasks.find(t => t.id === id)?.completed : find returns the first match,
\* and the negation of undefined is true
NotFoundCompleted(tasks, id) ==
    LET hits == {i \in 1..Len(tasks) : tasks[i].id = id}
    IN IF hits = {} THEN TRUE
       ELSE ~tasks[CHOOSE i \in hits : \A j \in hits : i <= j].completed

\* the ADD_TASK case as it would be had it put the new task first
ReduceAddPrepending(st, tm, payload, uuid, date) ==
    LET newTask == Spread(payload, [id |-> uuid, createdAt |-> date])
    IN [state |-> [st EXCEPT !.tasks = <<newTask>> \o st.tasks],
        taskMap |-> addTask(tm, newTask)]

ReduceAdd(st, tm, payload, uuid, date) ==
    LET newTask == Spread(payload, [id |-> uuid, createdAt |-> date])
    IN [state |-> [st EXCEPT !.tasks = Append(st.tasks, newTask)],
        taskMap |-> addTask(tm, newTask)]

ReduceUpdate(st, tm, payload) ==
    LET r == updateTask(tm, payload.id, payload.updates)
    IN IF ~r.found THEN [state |-> st, taskMap |-> r.taskMap]
       ELSE [state |-> [st EXCEPT !.tasks = ReplaceById(st.tasks, payload.id, r.task)],
             taskMap |-> r.taskMap]

\* DELETE_TASK as it would be with the test of the filter inverted
ReduceDeleteInverted(st, tm, id) ==
    LET Keep(task) == task.id = id
    IN [state |-> [st EXCEPT !.tasks = SelectSeq(st.tasks, Keep)],
        taskMap |-> deleteTask(tm, id)]

\* Array.prototype.filter is SelectSeq
ReduceDelete(st, tm, id) ==
    LET Keep(task) == task.id # id
    IN [state |-> [st EXCEPT !.tasks = SelectSeq(st.tasks, Keep)],
        taskMap |-> deleteTask(tm, id)]

\* TOGGLE_TASK as it would be had it put a task found only in the store back in the list
ReduceToggleUpsert(st, tm, id) ==
    LET r == updateTask(tm, id, [completed |-> NotFoundCompleted(st.tasks, id)])
    IN IF ~r.found THEN [state |-> st, taskMap |-> r.taskMap]
       ELSE IF \E i \in 1..Len(st.tasks) : st.tasks[i].id = id
       THEN [state |-> [st EXCEPT !.tasks = ReplaceById(st.tasks, id, r.task)],
             taskMap |-> r.taskMap]
       ELSE [state |-> [st EXCEPT !.tasks = Append(st.tasks, r.task)],
             taskMap |-> r.taskMap]

ReduceToggle(st, tm, id) ==
    LET r == updateTask(tm, id, [completed |-> NotFoundCompleted(st.tasks, id)])
    IN IF ~r.found THEN [state |-> st, taskMap |-> r.taskMap]
       ELSE [state |-> [st EXCEPT !.tasks = ReplaceById(st.tasks, id, r.task)],
             taskMap |-> r.taskMap]

\* CLEAR_COMPLETED as it would be with the test of the filter inverted
ReduceClearInverted(st, tm) ==
    LET Keep(task) == task.completed
    IN [state |-> [st EXCEPT !.tasks = SelectSeq(st.tasks, Keep)], taskMap |-> tm]

\* CLEAR_COMPLETED as it would be had it removed the first completed task only
ReduceClearFirstOnly(st, tm) ==
    LET done == {i \in 1..Len(st.tasks) : st.tasks[i].completed}
        first == CHOOSE i \in done : \A j \in done : i <= j
    IN IF done = {} THEN [state |-> st, taskMap |-> tm]
       ELSE [state |-> [st EXCEPT !.tasks = SubSeq(st.tasks, 1, first - 1)
                                            \o SubSeq(st.tasks, first + 1, Len(st.tasks))],
             taskMap |-> tm]

ReduceClearCompleted(st, tm) ==
    LET Keep(task) == ~task.completed
    IN [state |-> [st EXCEPT !.tasks = SelectSeq(st.tasks, Keep)], taskMap |-> tm]

\* taskReducer as it would be had SET_SEARCH trimmed and lower-cased the text
taskReducerNormalisingSearch(st, tm, action, uuid, date) ==
    CASE action.type = "ADD_TASK" -> ReduceAdd(st, tm, action.payload, uuid, date)
      [] action.type = "UPDATE_TASK" -> ReduceUpdate(st, tm, action.payload)
      [] action.type = "DELETE_TASK" -> ReduceDelete(st, tm, action.payload)
      [] action.type = "TOGGLE_TASK" -> ReduceToggle(st, tm, action.payload)
      [] action.type = "SET_FILTER" ->
            [state |-> [st EXCEPT !.filter = action.payload], taskMap |-> tm]
      [] action.type = "SET_SEARCH" ->
            [state |-> [st EXCEPT !.searchQuery =
                           [i \in 1..Len(Trim(action.payload)) |->
                               IF Trim(action.payload)[i] = "B" THEN "b"
                               ELSE Trim(action.payload)[i]]],
             taskMap |-> tm]
      [] action.type = "SET_PRIORITY_FILTER" ->
            [state |-> [st EXCEPT !.selectedPriority = action.payload], taskMap |-> tm]
      [] action.type = "CLEAR_COMPLETED" -> ReduceClearCompleted(st, tm)
      [] OTHER -> [state |-> st, taskMap |-> tm]

\* taskReducer(state, action), with the module-level taskManager it reads and writes
\* made explicit (tm in, taskMap out) and the two values it draws from its
\* environment, crypto.randomUUID() and new Date(), passed as uuid and date
taskReducer(st, tm, action, uuid, date) ==
    CASE action.type = "ADD_TASK" -> ReduceAdd(st, tm, action.payload, uuid, date)
      [] action.type = "UPDATE_TASK" -> ReduceUpdate(st, tm, action.payload)
      [] action.type = "DELETE_TASK" -> ReduceDelete(st, tm, action.payload)
      [] action.type = "TOGGLE_TASK" -> ReduceToggle(st, tm, action.payload)
      [] action.type = "SET_FILTER" ->
            [state |-> [st EXCEPT !.filter = action.payload], taskMap |-> tm]
      [] action.type = "SET_SEARCH" ->
            [state |-> [st EXCEPT !.searchQuery = action.payload], taskMap |-> tm]
      [] action.type = "SET_PRIORITY_FILTER" ->
            [state |-> [st EXCEPT !.selectedPriority = action.payload], taskMap |-> tm]
      [] action.type = "CLEAR_COMPLETED" -> ReduceClearCompleted(st, tm)
      [] OTHER -> [state |-> st, taskMap |-> tm]

(* --------------------------- view projection --------------------------- *)

\* String.prototype.toLowerCase, on the letters the inputs use
LowerChar(c) ==
    CASE c = "A" -> "a"
      [] c = "B" -> "b"
      [] c = "C" -> "c"
      [] OTHER -> c

ToLowerCase(s) == [i \in 1..Len(s) |-> LowerChar(s[i])]

\* String.prototype.includes
Includes(s, q) == \E i \in 0..(Len(s) - Len(q)) : SubSeq(s, i + 1, i + Len(q)) = q

\* TaskManager.priorityOrder
priorityOrder == [high |-> 3, medium |-> 2, low |-> 1]

\* the filter callback as it would be had it compared the texts as typed
MatchesFilterCaseSensitive(task, filter, searchQuery, priorityFilter) ==
    IF filter = "active" /\ task.completed THEN FALSE
    ELSE IF filter = "completed" /\ ~task.completed THEN FALSE
    ELSE IF /\ searchQuery # <<>>
            /\ ~Includes(task.title, searchQuery)
            /\ ~Includes(task.description, searchQuery) THEN FALSE
    ELSE IF priorityFilter # "all" /\ task.priority # priorityFilter THEN FALSE
    ELSE TRUE

\* the callback of tasks.filter in filterTasks: an empty searchQuery is falsy
MatchesFilter(task, filter, searchQuery, priorityFilter) ==
    IF filter = "active" /\ task.completed THEN FALSE
    ELSE IF filter = "completed" /\ ~task.completed THEN FALSE
    ELSE IF /\ searchQuery # <<>>
            /\ ~Includes(ToLowerCase(task.title), ToLowerCase(searchQuery))
            /\ ~Includes(ToLowerCase(task.description), ToLowerCase(searchQuery))
         THEN FALSE
    ELSE IF priorityFilter # "all" /\ task.priority # priorityFilter THEN FALSE
    ELSE TRUE

\* new Date(d).getTime() of a Date: its time value, which is how createdAt is kept
GetTime(d) == d

\* the comparator as it would be had it put the oldest of a priority first
CompareTasksOldestFirst(a, b) ==
    LET priorityDiff == priorityOrder[b.priority] - priorityOrder[a.priority]
    IN IF priorityDiff # 0 THEN priorityDiff
       ELSE GetTime(a.createdAt) - GetTime(b.createdAt)

\* the comparator of .sort in filterTasks: negative when a goes first
CompareTasks(a, b) ==
    LET priorityDiff == priorityOrder[b.priority] - priorityOrder[a.priority]
    IN IF priorityDiff # 0 THEN priorityDiff
       ELSE GetTime(b.createdAt) - GetTime(a.createdAt)

\* the insertion as it would be were the sort not stable: x goes before its equals
InsertSortedUnstable(sorted, x) ==
    LET later == {i \in 1..Len(sorted) : CompareTasks(sorted[i], x) >= 0}
        pos == IF later = {} THEN Len(sorted) + 1
               ELSE CHOOSE i \in later : \A j \in later : i <= j
    IN SubSeq(sorted, 1, pos - 1) \o <<x>> \o SubSeq(sorted, pos, Len(sorted))

\* Array.prototype.sort is stable: x goes before the first element that must follow it
InsertSorted(sorted, x) ==
    LET later == {i \in 1..Len(sorted) : CompareTasks(sorted[i], x) > 0}
        pos == IF later = {} THEN Len(sorted) + 1
               ELSE CHOOSE i \in later : \A j \in later : i <= j
    IN SubSeq(sorted, 1, pos - 1) \o <<x>> \o SubSeq(sorted, pos, Len(sorted))

RECURSIVE SortTasks(_)
SortTasks(s) ==
    IF s = <<>> THEN <<>>
    ELSE InsertSorted(SortTasks(SubSeq(s, 1, Len(s) - 1)), s[Len(s)])

\* TaskManager.filterTasks
filterTasks(tasks, filter, searchQuery, priorityFilter) ==
    LET Keep(task) == MatchesFilter(task, filter, searchQuery, priorityFilter)
    IN SortTasks(SelectSeq(tasks, Keep))

\* A heap is the objects a call of filterTasks can reach: the arrays, each under its
\* reference (its index in arrays), and the Map of the taskManager instance.

\* Array.prototype.filter with filterTasks' callback: a new array of the kept
\* members, in order; the receiver and every other object stay as they are
ArrayFilter(heap, ref, filter, searchQuery, priorityFilter) ==
    LET Keep(task) == MatchesFilter(task, filter, searchQuery, priorityFilter)
    IN [ref |-> Len(heap.arrays) + 1,
        heap |-> [heap EXCEPT !.arrays = Append(@, SelectSeq(@[ref], Keep))]]

\* Array.prototype.sort: sorts the receiver in place and returns it
ArraySort(heap, ref) ==
    [ref |-> ref,
     heap |-> [heap EXCEPT !.arrays[ref] = SortTasks(@)]]

\* the call as it would be had it sorted first and filtered after
filterTasksCallSortingFirst(heap, tasks, filter, searchQuery, priorityFilter) ==
    LET sorted == ArraySort(heap, tasks)
    IN ArrayFilter(sorted.heap, sorted.ref, filter, searchQuery, priorityFilter)

\* a call of taskManager.filterTasks on the array under the reference tasks:
\* tasks.filter(...).sort(...), the reference it returns and the objects it leaves
filterTasksCall(heap, tasks, filter, searchQuery, priorityFilter) ==
    LET filtered == ArrayFilter(heap, tasks, filter, searchQuery, priorityFilter)
    IN ArraySort(filtered.heap, filtered.ref)

\* the stats as they would be had highPriority counted completed tasks too
ComputeStatsAllHigh(tasks) ==
    LET Done(t) == t.completed
        Active(t) == ~t.completed
        High(t) == t.priority = "high"
    IN [total |-> Len(tasks),
        completed |-> Len(SelectSeq(tasks, Done)),
        active |-> Len(SelectSeq(tasks, Active)),
        highPriority |-> Len(SelectSeq(tasks, High))]

\* the object the stats useMemo computes
ComputeStats(tasks) ==
    LET Done(t) == t.completed
        Active(t) == ~t.completed
        HighActive(t) == t.priority = "high" /\ ~t.completed
    IN [total |-> Len(tasks),
        completed |-> Len(SelectSeq(tasks, Done)),
        active |-> Len(SelectSeq(tasks, Active)),
        highPriority |-> Len(SelectSeq(tasks, HighActive))]

\* whether taskReducer returns a state whose tasks is a new array: every case that
\* builds one does, the three setters spread the old one, and an update or toggle
\* the store does not know returns the state object itself
TasksReplaced(tm, action) ==
    CASE action.type \in {"ADD_TASK", "DELETE_TASK", "CLEAR_COMPLETED"} -> TRUE
      [] action.type = "UPDATE_TASK" -> MapHas(tm, action.payload.id)
      [] action.type = "TOGGLE_TASK" -> MapHas(tm, action.payload)
      [] OTHER -> FALSE

\* the dependency list as it would be without state.selectedPriority
FilteredDepsChangedNoPriority(old, new, replaced) ==
    \/ replaced
    \/ old.filter # new.filter
    \/ old.searchQuery # new.searchQuery

\* the dependency list of the filteredTasks useMemo: the array by identity, the
\* three filter values by value
FilteredDepsChanged(old, new, replaced) ==
    \/ replaced
    \/ old.filter # new.filter
    \/ old.searchQuery # new.searchQuery
    \/ old.selectedPriority # new.selectedPriority

\* what useTasks returns on the first render
FirstView(st) ==
    [filteredTasks |-> filterTasks(st.tasks, st.filter, st.searchQuery,
                                   st.selectedPriority),
     stats |-> ComputeStats(st.tasks)]

\* what useTasks returns on the render after a dispatch: each useMemo keeps its
\* value v unless one of its dependencies changed
NextView(v, old, new, replaced) ==
    [filteredTasks |->
        IF FilteredDepsChanged(old, new, replaced)
        THEN filterTasks(new.tasks, new.filter, new.searchQuery, new.selectedPriority)
        ELSE v.filteredTasks,
     stats |-> IF replaced THEN ComputeStats(new.tasks) ELSE v.stats]

(* --------------------------- the environment --------------------------- *)

\* crypto.randomUUID(): an identifier it has not returned before
RandomUUID == UuidPool \ issued

\* new Date(): the clock does not run backwards
DateNow == now..MaxClock

\* the updates an UPDATE_TASK may carry (Partial<Task>): the pair the edit form
\* sends, and single fields, id and createdAt among them
UpdateValues ==
    {[title |-> <<"B">>, description |-> <<>>],
     [priority |-> "low", completed |-> TRUE],
     [createdAt |-> MaxClock]}
    \cup {[id |-> i] : i \in issued}

(* ------------------------------- actions ------------------------------- *)

\* useReducer's initial state and the empty store
Init ==
    /\ state = [tasks |-> <<>>, filter |-> "all", searchQuery |-> <<>>,
                selectedPriority |-> "all"]
    /\ taskMap = <<>>
    /\ issued = {}
    /\ now = 0
    /\ steps = 0
    /\ view = FirstView(state)
    /\ lastAction = [type |-> "@@INIT", id |-> ""]

\* what lastAction keeps of an action: its type and the identifier it addresses
Label(action) ==
    [type |-> action.type,
     id |-> IF action.type \in {"DELETE_TASK", "TOGGLE_TASK"} THEN action.payload
            ELSE IF action.type = "UPDATE_TASK" THEN action.payload.id
            ELSE ""]

\* dispatch(action): React applies taskReducer to the current state and renders
Dispatch(action, uuid, date) ==
    LET r == taskReducer(state, taskMap, action, uuid, date)
    IN /\ steps < MaxSteps
       /\ steps' = steps + 1
       /\ state' = r.state
       /\ taskMap' = r.taskMap
       /\ view' = NextView(view, state, r.state, TasksReplaced(taskMap, action))
       /\ lastAction' = Label(action)

\* the test of handleSubmit without the trim
CanSubmitUntrimmed(title) == title # <<>>

\* TaskForm.handleSubmit's test: if (title.trim())
CanSubmit(title) == Trim(title) # <<>>

\* TaskForm.handleSubmit with a title that trims to non-empty, through handleAddTask
HandleSubmit(title, description, priority) ==
    /\ CanSubmit(title)
    /\ Cardinality(issued) < MaxAdds
    /\ \E uuid \in RandomUUID : \E date \in DateNow :
          /\ Dispatch([type |-> "ADD_TASK",
                       payload |-> CreateTask(title, description, priority)], uuid, date)
          /\ issued' = issued \cup {uuid}
          /\ now' = date

\* handleEditTask(id, updates)
HandleEditTask(id, updates) ==
    /\ Dispatch([type |-> "UPDATE_TASK", payload |-> [id |-> id, updates |-> updates]],
                "", now)
    /\ UNCHANGED <<issued, now>>

\* handleDeleteTask(id)
HandleDeleteTask(id) ==
    /\ Dispatch([type |-> "DELETE_TASK", payload |-> id], "", now)
    /\ UNCHANGED <<issued, now>>

\* handleToggleTask(id)
HandleToggleTask(id) ==
    /\ Dispatch([type |-> "TOGGLE_TASK", payload |-> id], "", now)
    /\ UNCHANGED <<issued, now>>

\* handleClearCompleted
HandleClearCompleted ==
    /\ Dispatch([type |-> "CLEAR_COMPLETED"], "", now)
    /\ UNCHANGED <<issued, now>>

\* onFilterChange
SetFilter(f) ==
    /\ Dispatch([type |-> "SET_FILTER", payload |-> f], "", now)
    /\ UNCHANGED <<issued, now>>

\* onSearchChange
SetSearch(q) ==
    /\ Dispatch([type |-> "SET_SEARCH", payload |-> q], "", now)
    /\ UNCHANGED <<issued, now>>

\* onPriorityChange
SetPriorityFilter(p) ==
    /\ Dispatch([type |-> "SET_PRIORITY_FILTER", payload |-> p], "", now)
    /\ UNCHANGED <<issued, now>>

Next ==
    \/ \E t \in FormTitles, d \in FormDescriptions, p \in FormPriorities :
          HandleSubmit(t, d, p)
    \/ \E id \in UuidPool, u \in UpdateValues : HandleEditTask(id, u)
    \/ \E id \in UuidPool : HandleDeleteTask(id)
    \/ \E id \in UuidPool : HandleToggleTask(id)
    \/ HandleClearCompleted
    \/ \E f \in FilterValues : SetFilter(f)
    \/ \E q \in SearchValues : SetSearch(q)
    \/ \E p \in PriorityFilterValues : SetPriorityFilter(p)

Spec == Init /\ [][Next]_vars

(* ------------------- updates that leave the id alone ------------------ *)

\* the updates that name fields other than id
UpdateValuesKeepingId == {u \in UpdateValues : "id" \notin DOMAIN u}

\* every action of the reducer, with updates of fields other than id
NextKeepingId ==
    \/ \E t \in FormTitles, d \in FormDescriptions, p \in FormPriorities :
          HandleSubmit(t, d, p)
    \/ \E id \in UuidPool, u \in UpdateValuesKeepingId : HandleEditTask(id, u)
    \/ \E id \in UuidPool : HandleDeleteTask(id)
    \/ \E id \in UuidPool : HandleToggleTask(id)
    \/ HandleClearCompleted
    \/ \E f \in FilterValues : SetFilter(f)
    \/ \E q \in SearchValues : SetSearch(q)
    \/ \E p \in PriorityFilterValues : SetPriorityFilter(p)

SpecKeepingId == Init /\ [][NextKeepingId]_vars

(* ------------------------- the user interface ------------------------- *)

\* what the user can type into a task's edit fields
EditTitles == {<<"B", " ">>, <<" ">>, <<>>}
EditDescriptions == {<<" ", "c">>}

\* a handler that returns without dispatching: nothing is reduced, nothing renders
NoDispatch(handler) ==
    /\ steps < MaxSteps
    /\ steps' = steps + 1
    /\ lastAction' = [type |-> handler, id |-> ""]
    /\ UNCHANGED <<state, taskMap, issued, now, view>>

\* TaskForm.handleSubmit, on the button or on Enter, whatever the title field holds
SubmitForm(title, description, priority) ==
    IF CanSubmit(title)
    THEN HandleSubmit(title, description, priority)
    ELSE NoDispatch("@@SUBMIT_REJECTED")

\* the test of handleSave without the trim
CanSaveUntrimmed(editTitle) == editTitle # <<>>

\* TaskItem.handleSave's test: if (editTitle.trim())
CanSave(editTitle) == Trim(editTitle) # <<>>

\* TaskItem.handleSave on a displayed task, whatever the edit fields hold
HandleSave(task, editTitle, editDescription) ==
    IF CanSave(editTitle)
    THEN HandleEditTask(task.id, [title |-> Trim(editTitle),
                                  description |-> Trim(editDescription)])
    ELSE NoDispatch("@@SAVE_REJECTED")

\* the clear button as it would be were it always rendered
ClickClearCompletedUngated == HandleClearCompleted

\* the clear button is rendered only while stats.completed > 0
ClickClearCompleted ==
    /\ view.stats.completed > 0
    /\ HandleClearCompleted

\* the steps a user can take: the form, the buttons of the displayed tasks (one
\* TaskItem per member of filteredTasks), the clear button and the filter controls
NextUI ==
    \/ \E t \in FormTitles, d \in FormDescriptions, p \in FormPriorities :
          SubmitForm(t, d, p)
    \/ \E k \in 1..Len(view.filteredTasks), t \in EditTitles, d \in EditDescriptions :
          HandleSave(view.filteredTasks[k], t, d)
    \/ \E k \in 1..Len(view.filteredTasks) : HandleDeleteTask(view.filteredTasks[k].id)
    \/ \E k \in 1..Len(view.filteredTasks) : HandleToggleTask(view.filteredTasks[k].id)
    \/ ClickClearCompleted
    \/ \E f \in FilterValues : SetFilter(f)
    \/ \E q \in SearchValues : SetSearch(q)
    \/ \E p \in PriorityFilterValues : SetPriorityFilter(p)

SpecUI == Init /\ [][NextUI]_vars

\* the identifiers a task list holds
TaskIds(tasks) == {tasks[i].id : i \in 1..Len(tasks)}

(* ------------------------ filterTasks on its own ----------------------- *)

\* the longest task list filterTasks is given
MaxLen == 3

\* tasks as createTask and ADD_TASK build them, less the id: the three priorities,
\* both completion flags, equal and different timestamps, letters of both cases
SampleTasks ==
    <<[title |-> <<"a", "B">>, description |-> <<>>, completed |-> FALSE,
       priority |-> "high", createdAt |-> 0, dueDate |-> Undefined, tags |-> <<>>],
      [title |-> <<"b", " ", "c">>, description |-> <<"A">>, completed |-> TRUE,
       priority |-> "high", createdAt |-> 1, dueDate |-> Undefined, tags |-> <<>>],
      [title |-> <<"C">>, description |-> <<"B", " ", "a">>, completed |-> FALSE,
       priority |-> "medium", createdAt |-> 1, dueDate |-> Undefined, tags |-> <<>>],
      [title |-> <<"A", "b">>, description |-> <<"c">>, completed |-> TRUE,
       priority |-> "low", createdAt |-> 0, dueDate |-> Undefined, tags |-> <<>>]>>

\* the search texts and priorities the filter controls are set to
SampleSearches == {<<>>, <<"B", " ">>, <<"a", "b">>, <<"C">>}
SamplePriorities == {"all", "high", "medium", "low"}

\* the list that holds the sample tasks pick[1], pick[2], ..., each under its own id
SampleList(pick) ==
    [i \in 1..Len(pick) |-> Spread(SampleTasks[pick[i]], [id |-> "t" \o ToString(i)])]

\* the store that addTask has been given each task of the list in turn
RECURSIVE StoreOf(_)
StoreOf(tasks) ==
    IF tasks = <<>> THEN <<>>
    ELSE addTask(StoreOf(SubSeq(tasks, 1, Len(tasks) - 1)), tasks[Len(tasks)])

\* the application holding any list of up to MaxLen sample tasks, freshly rendered
InitFilter ==
    /\ \E n \in 0..MaxLen : \E pick \in [1..n -> 1..Len(SampleTasks)] :
          state = [tasks |-> SampleList(pick), filter |-> "all", searchQuery |-> <<>>,
                   selectedPriority |-> "all"]
    /\ taskMap = StoreOf(state.tasks)
    /\ issued = TaskIds(state.tasks)
    /\ now = MaxClock
    /\ steps = 0
    /\ view = FirstView(state)
    /\ lastAction = [type |-> "@@INIT", id |-> ""]

\* the filter controls: each change renders, and the render calls filterTasks
NextFilter ==
    \/ \E f \in FilterValues : SetFilter(f)
    \/ \E q \in SampleSearches : SetSearch(q)
    \/ \E p \in SamplePriorities : SetPriorityFilter(p)

SpecFilter == InitFilter /\ [][NextFilter]_vars

(* ------------------------- words for the claims ------------------------ *)

SeqRange(s) == {s[i] : i \in 1..Len(s)}

Filters(st) == <<st.filter, st.searchQuery, st.selectedPriority>>

\* the actions the handlers can hand to taskReducer in the current state, by kind
AddActions ==
    {[type |-> "ADD_TASK", payload |-> CreateTask(t, d, p)] :
        t \in {x \in FormTitles : Trim(x) # <<>>}, d \in FormDescriptions,
        p \in FormPriorities}

UpdateActions ==
    {[type |-> "UPDATE_TASK", payload |-> [id |-> i, updates |-> u]] :
        i \in UuidPool, u \in UpdateValues}

IdActions ==
    {[type |-> t, payload |-> i] : t \in {"DELETE_TASK", "TOGGLE_TASK"}, i \in UuidPool}

SetterActions ==
    {[type |-> "SET_FILTER", payload |-> f] : f \in FilterValues}
    \cup {[type |-> "SET_PRIORITY_FILTER", payload |-> p] : p \in PriorityFilterValues}

SearchActions == {[type |-> "SET_SEARCH", payload |-> q] : q \in SearchValues}

ClearActions == {[type |-> "CLEAR_COMPLETED"]}

\* what randomUUID and the clock can return once the identifiers in iss are taken
\* and the clock has read t
Envs(iss, t) == {[uuid |-> u, date |-> d] : u \in UuidPool \ iss, d \in t..MaxClock}

\* r is s without its leading and trailing spaces
IsTrimOf(r, s) ==
    \E i \in 1..(Len(s) + 1), j \in 0..Len(s) :
        /\ r = SubSeq(s, i, j)
        /\ \A k \in 1..Len(s) : (k < i \/ k > j) => s[k] = " "
        /\ r # <<>> => (r[1] # " " /\ r[Len(r)] # " ")

\* the k-th smallest member of a set of indices
Kth(idx, k) == CHOOSE i \in idx : Cardinality({j \in idx : j < i}) = k - 1

\* r is tasks restricted to the incomplete tasks, in the same relative order
IsActiveRestriction(r, tasks) ==
    LET idx == {i \in 1..Len(tasks) : ~tasks[i].completed}
    IN /\ Len(r) = Cardinality(idx)
       /\ \A k \in 1..Len(r) : r[k] = tasks[Kth(idx, k)]

(* -------------------------------- claims ------------------------------- *)

\* C1: after any sequence of actions the task store, as getAllTasks enumerates it,
\* and state.tasks hold the same set of task records.
C1_StoreEqualsStateTasks ==
    SeqRange(getAllTasks(taskMap)) = SeqRange(state.tasks)

\* C2: taskReducer is deterministic: applied twice to the same state and action, the
\* second time on the store the first application left, whatever randomUUID and the
\* clock return, it yields equal states.
C2_ReducerDeterministic ==
    LET Same(a) ==
            \A e1 \in Envs(issued, now) :
                \A e2 \in Envs(issued \cup {e1.uuid}, e1.date) :
                    LET r1 == taskReducer(state, taskMap, a, e1.uuid, e1.date)
                        r2 == taskReducer(state, r1.taskMap, a, e2.uuid, e2.date)
                    IN r2.state = r1.state
    IN /\ \A a \in AddActions : Same(a)
       /\ \A a \in UpdateActions : Same(a)
       /\ \A a \in IdActions : Same(a)
       /\ \A a \in SetterActions : Same(a)
       /\ \A a \in SearchActions : Same(a)
       /\ \A a \in ClearActions : Same(a)

\* C3: an update, delete or toggle whose id is not in state.tasks leaves the state as
\* it was: same tasks in the same order, same filters.
C3_AbsentIdIsNoOp ==
    [][(/\ lastAction'.type \in {"UPDATE_TASK", "DELETE_TASK", "TOGGLE_TASK"}
        /\ lastAction'.id \notin TaskIds(state.tasks))
       => state' = state]_vars

\* a toggle of an id whose task clear-completed removed earlier, with a task left
C3_Witness ==
    /\ lastAction.type = "TOGGLE_TASK"
    /\ lastAction.id \in issued
    /\ lastAction.id \notin TaskIds(state.tasks)
    /\ MapHas(taskMap, lastAction.id)
    /\ state.tasks # <<>>

\* C4: an add for a title that trims to non-empty appends exactly one task, with the
\* trimmed title, completed = false and an id no task created before ever had, and
\* changes no task that was there.
C4_AddAppendsFreshTask ==
    [][\A t \in FormTitles, d \in FormDescriptions, p \in FormPriorities :
          HandleSubmit(t, d, p) =>
             /\ Len(state'.tasks) = Len(state.tasks) + 1
             /\ SubSeq(state'.tasks, 1, Len(state.tasks)) = state.tasks
             /\ LET new == state'.tasks[Len(state'.tasks)]
                IN /\ IsTrimOf(new.title, t)
                   /\ new.title # <<>>
                   /\ new.completed = FALSE
                   /\ new.id \notin issued
                   /\ new.id \notin TaskIds(state.tasks)
                   /\ \A i \in 1..Len(taskMap) :
                         new.id # taskMap[i].k /\ new.id # taskMap[i].v.id
             /\ Filters(state') = Filters(state)]_vars

\* an add after an earlier task was removed, the typed title carrying spaces
C4_Witness ==
    /\ lastAction.type = "ADD_TASK"
    /\ Cardinality(issued) = 2
    /\ Len(state.tasks) = 1
    /\ state.tasks[1].title = <<"a">>

\* C5: an update whose id is in state.tasks sets every field the partial names on the
\* tasks that had that id and keeps their other fields, and changes no other task, nor
\* the order, nor the filters.
C5_UpdateOverwritesNamedFields ==
    [][\A id \in UuidPool, u \in UpdateValues :
          (HandleEditTask(id, u) /\ id \in TaskIds(state.tasks)) =>
             /\ Len(state'.tasks) = Len(state.tasks)
             /\ \A i \in 1..Len(state.tasks) :
                   IF state.tasks[i].id = id
                   THEN \A f \in TaskFields :
                           state'.tasks[i][f] =
                              IF f \in DOMAIN u THEN u[f] ELSE state.tasks[i][f]
                   ELSE state'.tasks[i] = state.tasks[i]
             /\ Filters(state') = Filters(state)]_vars

\* C6: a toggle whose id is in state.tasks negates the completion flag of the tasks
\* that had that id and keeps their other fields, and changes no other task, nor the
\* order, nor the filters.
C6_ToggleNegatesFlag ==
    [][(lastAction'.type = "TOGGLE_TASK" /\ lastAction'.id \in TaskIds(state.tasks)) =>
          /\ Len(state'.tasks) = Len(state.tasks)
          /\ \A i \in 1..Len(state.tasks) :
                IF state.tasks[i].id = lastAction'.id
                THEN state'.tasks[i] =
                        [state.tasks[i] EXCEPT !.completed = ~state.tasks[i].completed]
                ELSE state'.tasks[i] = state.tasks[i]
          /\ Filters(state') = Filters(state)]_vars

\* C7: in every reachable state, for every id, toggle(id) applied twice in a row
\* yields the state it started from.
C7_ToggleTwiceIsIdentity ==
    \A id \in UuidPool :
        LET a == [type |-> "TOGGLE_TASK", payload |-> id]
            r1 == taskReducer(state, taskMap, a, "", now)
            r2 == taskReducer(r1.state, r1.taskMap, a, "", now)
        IN r2.state = state

\* C8: clear-completed leaves exactly the incomplete tasks of the previous list, in
\* the same relative order and unaltered, and the filters as they were.
C8_ClearKeepsActiveInOrder ==
    [][lastAction'.type = "CLEAR_COMPLETED" =>
          /\ IsActiveRestriction(state'.tasks, state.tasks)
          /\ \A i \in 1..Len(state'.tasks) : ~state'.tasks[i].completed
          /\ Filters(state') = Filters(state)]_vars

\* a clear-completed that removed one task and kept another
C8_Witness ==
    /\ lastAction.type = "CLEAR_COMPLETED"
    /\ Len(state.tasks) = 1
    /\ \E i \in 1..Len(taskMap) :
          /\ taskMap[i].v.completed
          /\ taskMap[i].k = taskMap[i].v.id
          /\ taskMap[i].k \notin TaskIds(state.tasks)

\* C9: clear-completed is idempotent: in the state a clear-completed produced, a
\* second clear-completed changes nothing.
C9_ClearIsIdempotent ==
    lastAction.type = "CLEAR_COMPLETED" =>
        taskReducer(state, taskMap, [type |-> "CLEAR_COMPLETED"], "", now).state = state

\* a clear-completed that removed two completed tasks
C9_Witness ==
    /\ lastAction.type = "CLEAR_COMPLETED"
    /\ state.tasks = <<>>
    /\ Len(taskMap) = 2
    /\ \A i \in 1..Len(taskMap) : taskMap[i].v.completed

\* C10: no two tasks of state.tasks have the same identifier.
C10_UniqueIds ==
    \A i, j \in 1..Len(state.tasks) : i # j => state.tasks[i].id # state.tasks[j].id

\* r is tasks restricted to the positions in idx, in the same relative order
IsRestrictionTo(r, tasks, idx) ==
    /\ Len(r) = Cardinality(idx)
    /\ \A k \in 1..Len(r) : r[k] = tasks[Kth(idx, k)]

\* the identifier and the creation timestamp of a task
IdStamp(task) == <<task.id, task.createdAt>>

\* C11: no action changes the id or the createdAt of a task that remains in
\* state.tasks: add, update, toggle and the setters keep them at every position, and
\* what delete and clear-completed leave carries an id and createdAt it had before.
C11_IdAndCreatedAtImmutable ==
    [][IF lastAction'.type \in {"DELETE_TASK", "CLEAR_COMPLETED"}
       THEN \A j \in 1..Len(state'.tasks) : \E i \in 1..Len(state.tasks) :
               IdStamp(state'.tasks[j]) = IdStamp(state.tasks[i])
       ELSE /\ Len(state'.tasks) >= Len(state.tasks)
            /\ \A i \in 1..Len(state.tasks) :
                  IdStamp(state'.tasks[i]) = IdStamp(state.tasks[i])]_vars

\* a string with no character other than a space
IsBlank(s) == \A i \in 1..Len(s) : s[i] = " "

\* C12: through the user interface (the add form and the edit fields of a displayed
\* task) every task in state.tasks always has a title that is non-empty after
\* trimming.
C12_TitlesNonBlank ==
    \A i \in 1..Len(state.tasks) : ~IsBlank(state.tasks[i].title)

\* an added task and an edited one, each with its trimmed title, after a save
C12_Witness ==
    /\ lastAction.type = "UPDATE_TASK"
    /\ \E i, j \in 1..Len(state.tasks) :
          /\ state.tasks[i].title = <<"a">>
          /\ state.tasks[j].title = <<"B">>
          /\ state.tasks[j].description = <<"c">>

\* two characters that are the same letter, whatever their case
SameLetter(x, y) ==
    x = y \/ {x, y} \in {{"a", "A"}, {"b", "B"}, {"c", "C"}}

\* q occurs in s, case aside
OccursIn(q, s) ==
    \E i \in 1..(Len(s) - Len(q) + 1) :
        \A k \in 1..Len(q) : SameLetter(s[i + k - 1], q[k])

\* the three criteria together
Satisfies(task, f, q, p) ==
    /\ \/ f = "all"
       \/ f = "active" /\ ~task.completed
       \/ f = "completed" /\ task.completed
    /\ q = <<>> \/ OccursIn(q, task.title) \/ OccursIn(q, task.description)
    /\ p = "all" \/ p = task.priority

\* filterTasks on the current list under the current filter settings
CurrentFiltered ==
    filterTasks(state.tasks, state.filter, state.searchQuery, state.selectedPriority)

\* C13: for every task list, status filter, search text and priority filter,
\* filterTasks returns exactly the input tasks that satisfy all three criteria
\* together (status, case-insensitive search in title or description, priority):
\* no other task, and none twice.
C13_FilterReturnsExactlyMatches ==
    LET idx == {i \in 1..Len(state.tasks) :
                   Satisfies(state.tasks[i], state.filter, state.searchQuery,
                             state.selectedPriority)}
    IN /\ Len(CurrentFiltered) = Cardinality(idx)
       /\ SeqRange(CurrentFiltered) = {state.tasks[i] : i \in idx}

\* all three criteria are set, the rendered list is filterTasks' result, it keeps a
\* task that matches the search only case aside and drops another task
C13_Witness ==
    /\ state.filter # "all"
    /\ state.searchQuery # <<>>
    /\ state.selectedPriority # "all"
    /\ view.filteredTasks = CurrentFiltered
    /\ Len(CurrentFiltered) < Len(state.tasks)
    /\ \E k \in 1..Len(CurrentFiltered) :
          /\ ~Includes(CurrentFiltered[k].title, state.searchQuery)
          /\ ~Includes(CurrentFiltered[k].description, state.searchQuery)

\* the rank of a priority
Rank(p) == CASE p = "high" -> 3 [] p = "medium" -> 2 [] p = "low" -> 1

\* C14: the sequence filterTasks returns is ordered by descending priority rank
\* (high 3, medium 2, low 1) and, within a rank, by descending creation timestamp:
\* of two positions i < j, the task at i ranks higher, or ranks the same and was
\* created no earlier.
C14_FilterSortsByRankThenNewest ==
    \A i, j \in 1..Len(CurrentFiltered) :
        i < j =>
            LET a == CurrentFiltered[i]
                b == CurrentFiltered[j]
            IN \/ Rank(a.priority) > Rank(b.priority)
               \/ Rank(a.priority) = Rank(b.priority) /\ a.createdAt >= b.createdAt

\* after a filter change the rendered list is filterTasks' result; it holds two ranks and, within one
\* rank, two timestamps, and the sort had to move the last task to the front
C14_Witness ==
    /\ lastAction.type = "SET_FILTER"
    /\ view.filteredTasks = CurrentFiltered
    /\ Len(CurrentFiltered) = Len(state.tasks)
    /\ Len(CurrentFiltered) >= 3
    /\ CurrentFiltered[1] = state.tasks[Len(state.tasks)]
    /\ \E i, j \in 1..Len(CurrentFiltered) :
          CurrentFiltered[i].priority # CurrentFiltered[j].priority
    /\ \E i, j \in 1..Len(CurrentFiltered) :
          /\ CurrentFiltered[i].priority = CurrentFiltered[j].priority
          /\ CurrentFiltered[i].createdAt # CurrentFiltered[j].createdAt

\* C15: the four statistics are counts over the whole of state.tasks, whatever the
\* filters are: total, completed, active = total - completed, and highPriority the
\* incomplete tasks of priority high, so highPriority <= active <= total.
C15_StatsCountAllTasks ==
    LET all == 1..Len(state.tasks)
        done == {i \in all : state.tasks[i].completed}
        urgent == {i \in all \ done : state.tasks[i].priority = "high"}
    IN /\ view.stats.total = Len(state.tasks)
       /\ view.stats.completed = Cardinality(done)
       /\ view.stats.active = view.stats.total - view.stats.completed
       /\ view.stats.highPriority = Cardinality(urgent)
       /\ view.stats.highPriority <= view.stats.active
       /\ view.stats.active <= view.stats.total

\* statistics over two tasks while the status filter hides the completed one
C15_Witness ==
    /\ state.filter = "active"
    /\ view.stats.total = 2
    /\ view.stats.completed = 1
    /\ view.stats.highPriority = 1
    /\ Len(view.filteredTasks) = 1

\* C16: each filter setter stores the value it is given, as given, in its own field
\* and leaves state.tasks and the other two filter fields as they were.
C16_SettersChangeOwnField ==
    [][/\ \A f \in FilterValues :
             SetFilter(f) => state' = [state EXCEPT !.filter = f]
       /\ \A q \in SearchValues :
             SetSearch(q) =>
                /\ state'.searchQuery = q
                /\ state'.tasks = state.tasks
                /\ state'.filter = state.filter
                /\ state'.selectedPriority = state.selectedPriority
       /\ \A p \in PriorityFilterValues :
             SetPriorityFilter(p) => state' = [state EXCEPT !.selectedPriority = p]]_vars

\* a search text with an upper-case letter and a trailing space stored as typed, with
\* a task in the list and another filter set
C16_Witness ==
    /\ lastAction.type = "SET_SEARCH"
    /\ state.searchQuery = <<"B", " ">>
    /\ state.filter = "completed"
    /\ state.tasks # <<>>

\* C17: a task leaves state.tasks only by a delete with its id or by a
\* clear-completed while it is completed: add, update, toggle and the setters keep
\* every position of the list, a delete keeps all tasks of another id, and a
\* clear-completed keeps all incomplete tasks.
C17_TasksLeaveOnlyByDeleteOrClear ==
    [][CASE lastAction'.type = "DELETE_TASK" ->
              IsRestrictionTo(state'.tasks, state.tasks,
                  {i \in 1..Len(state.tasks) : state.tasks[i].id # lastAction'.id})
         [] lastAction'.type = "CLEAR_COMPLETED" ->
              IsRestrictionTo(state'.tasks, state.tasks,
                  {i \in 1..Len(state.tasks) : ~state.tasks[i].completed})
         [] lastAction'.type = "ADD_TASK" ->
              /\ Len(state'.tasks) = Len(state.tasks) + 1
              /\ \A i \in 1..Len(state.tasks) : state'.tasks[i] = state.tasks[i]
         [] OTHER -> Len(state'.tasks) = Len(state.tasks)]_vars

\* a delete that removed one task and kept the task of another id
C17_Witness ==
    /\ lastAction.type = "DELETE_TASK"
    /\ lastAction.id \in issued
    /\ lastAction.id \notin TaskIds(state.tasks)
    /\ ~MapHas(taskMap, lastAction.id)
    /\ Len(state.tasks) = 1

\* C18: the createdAt an add gives the new task is not earlier than the createdAt of
\* any task that was in the state before the add.
C18_NewTaskIsNewest ==
    [][lastAction'.type = "ADD_TASK" =>
          \A i \in 1..Len(state.tasks) :
              state'.tasks[Len(state'.tasks)].createdAt >= state.tasks[i].createdAt]_vars

\* C19: submitting the add form with an empty or whitespace-only title dispatches
\* no add action: the state (tasks and filters) and the task store are unchanged.
C19_BlankSubmitChangesNothing ==
    [][\A t \in FormTitles, d \in FormDescriptions, p \in FormPriorities :
          (IsBlank(t) /\ SubmitForm(t, d, p)) =>
              (state' = state /\ taskMap' = taskMap)]_vars

\* a blank title was submitted while tasks exist and a further add was possible
C19_Witness ==
    /\ lastAction.type = "@@SUBMIT_REJECTED"
    /\ state.tasks # <<>>
    /\ Cardinality(issued) < MaxAdds

\* C20: after every action the view shows the projection of the current state:
\* filterTasks of the current tasks and filters, and the counts of the current tasks.
C20_ViewIsCurrent ==
    /\ view.filteredTasks =
          filterTasks(state.tasks, state.filter, state.searchQuery, state.selectedPriority)
    /\ view.stats = ComputeStats(state.tasks)

\* the priority filter just set hides a task of another priority
C20_Witness ==
    /\ lastAction.type = "SET_PRIORITY_FILTER"
    /\ state.selectedPriority = "high"
    /\ state.tasks # <<>>
    /\ Len(view.filteredTasks) < Len(state.tasks)

\* C21: taskReducer has no side effects: applied to any state and action it changes
\* nothing but the state it returns; the contents of the module-level task store are
\* the same after the call as before it.
C21_ReducerLeavesStoreUnchanged ==
    LET Kept(a) ==
            \A e \in Envs(issued, now) :
                taskReducer(state, taskMap, a, e.uuid, e.date).taskMap = taskMap
    IN /\ \A a \in AddActions : Kept(a)
       /\ \A a \in UpdateActions : Kept(a)
       /\ \A a \in IdActions : Kept(a)
       /\ \A a \in SetterActions : Kept(a)
       /\ \A a \in SearchActions : Kept(a)
       /\ \A a \in ClearActions : Kept(a)

\* the objects as the render finds them: state.tasks under reference 1, and the store
CurrentHeap == [arrays |-> <<state.tasks>>, taskMap |-> taskMap]

\* stores other than the current one: the empty store and the store without the
\* first task
OtherStores ==
    IF state.tasks = <<>> THEN {<<>>} ELSE {<<>>, StoreOf(Tail(state.tasks))}

\* C22: filterTasks is a pure function: called twice with the same task list, status
\* filter, search text and priority filter it returns the same sequence in the same
\* order (the second call made after the first, on the objects the first left, and
\* a call made with a different store), and a call leaves the contents and order of
\* state.tasks and the task store as they were.
C22_FilterTasksIsPure ==
    LET c1 == filterTasksCall(CurrentHeap, 1, state.filter, state.searchQuery,
                              state.selectedPriority)
        c2 == filterTasksCall(c1.heap, 1, state.filter, state.searchQuery,
                              state.selectedPriority)
    IN /\ c1.heap.arrays[1] = state.tasks
       /\ c1.heap.taskMap = taskMap
       /\ c2.heap.arrays[1] = state.tasks
       /\ c2.heap.arrays[c2.ref] = c1.heap.arrays[c1.ref]
       /\ \A tm \in OtherStores :
             LET c3 == filterTasksCall([CurrentHeap EXCEPT !.taskMap = tm], 1,
                                       state.filter, state.searchQuery,
                                       state.selectedPriority)
             IN c3.heap.arrays[c3.ref] = c1.heap.arrays[c1.ref]

\* after a filter change the rendered list is what a call returns now; the list is
\* not in sorted order, so that a sort of the argument would show, and the result
\* drops a task and keeps at least two
C22_Witness ==
    LET c1 == filterTasksCall(CurrentHeap, 1, state.filter, state.searchQuery,
                              state.selectedPriority)
    IN /\ lastAction.type \in {"SET_FILTER", "SET_SEARCH", "SET_PRIORITY_FILTER"}
       /\ view.filteredTasks = c1.heap.arrays[c1.ref]
       /\ state.tasks # SortTasks(state.tasks)
       /\ Len(view.filteredTasks) >= 2
       /\ Len(view.filteredTasks) < Len(state.tasks)
       /\ taskMap # <<>>

\* the position of x in a sequence that holds it
PositionOf(s, x) == CHOOSE k \in 1..Len(s) : s[k] = x

\* two tasks of equal priority and equal creation timestamp
SameSortKey(a, b) == a.priority = b.priority /\ a.createdAt = b.createdAt

\* C23: the sort in filterTasks is stable: two tasks that pass the filter and have
\* equal priority and equal creation timestamp appear in the output in the same
\* relative order as in the input list.
C23_SortIsStable ==
    \A i, j \in 1..Len(state.tasks) :
        LET a == state.tasks[i]
            b == state.tasks[j]
        IN (/\ i < j
            /\ a \in SeqRange(CurrentFiltered)
            /\ b \in SeqRange(CurrentFiltered)
            /\ SameSortKey(a, b))
           => PositionOf(CurrentFiltered, a) < PositionOf(CurrentFiltered, b)

\* after a filter change the rendered list is filterTasks' result; it holds two tasks
\* of one sort key and the sort had to move a task of another key past them
C23_Witness ==
    /\ lastAction.type \in {"SET_FILTER", "SET_SEARCH", "SET_PRIORITY_FILTER"}
    /\ view.filteredTasks = CurrentFiltered
    /\ Len(CurrentFiltered) = Len(state.tasks)
    /\ CurrentFiltered # state.tasks
    /\ \E i, j \in 1..Len(CurrentFiltered) :
          i < j /\ SameSortKey(CurrentFiltered[i], CurrentFiltered[j])

\* C24: the clear-completed control is available only where the completed count is
\* greater than 0, so every clear-completed issued from the interface removes at
\* least one task and strictly decreases the number of tasks.
C24_ClearFromInterfaceRemovesATask ==
    [][ClickClearCompleted =>
          /\ \E i \in 1..Len(state.tasks) : state.tasks[i].completed
          /\ Len(state'.tasks) < Len(state.tasks)]_vars

\* the button was clicked and an incomplete task stayed
C24_Witness ==
    /\ lastAction.type = "CLEAR_COMPLETED"
    /\ state.tasks # <<>>
    /\ Len(taskMap) > Len(state.tasks)

\* C25: in every state reached by add, update of fields other than id, delete,
\* toggle, clear-completed and the filter setters, every task in state.tasks is in
\* the task store under its own id, with a record equal to it field by field (so
\* update and toggle, which build on the store's copy, write no stale value).
C25_StoreHoldsEveryStateTask ==
    \A i \in 1..Len(state.tasks) :
        /\ MapHas(taskMap, state.tasks[i].id)
        /\ MapGet(taskMap, state.tasks[i].id) = state.tasks[i]

\* an update or toggle has just rewritten a task that is in state.tasks, while the
\* store still holds a task that clear-completed took out of state.tasks
C25_Witness ==
    /\ lastAction.type \in {"UPDATE_TASK", "TOGGLE_TASK"}
    /\ lastAction.id \in TaskIds(state.tasks)
    /\ Len(taskMap) > Len(state.tasks)

\* r is s with some of its members left out, the others in the same order
RECURSIVE IsSubsequence(_, _)
IsSubsequence(r, s) ==
    IF r = <<>> THEN TRUE
    ELSE IF s = <<>> THEN FALSE
    ELSE IF Head(r) = Head(s) THEN IsSubsequence(Tail(r), Tail(s))
    ELSE IsSubsequence(r, Tail(s))

\* C26: state.tasks keeps insertion order under every action: add places the new
\* task last, update and toggle replace tasks where they stand (the list keeps its
\* length and every task of another id stays as and where it is), delete and
\* clear-completed leave the remaining tasks in their relative order, and the
\* setters leave the list alone; so the tasks stay in the order of their addition.
C26_TasksKeepInsertionOrder ==
    [][CASE lastAction'.type = "ADD_TASK" ->
              /\ Len(state'.tasks) = Len(state.tasks) + 1
              /\ SubSeq(state'.tasks, 1, Len(state.tasks)) = state.tasks
         [] lastAction'.type \in {"UPDATE_TASK", "TOGGLE_TASK"} ->
              /\ Len(state'.tasks) = Len(state.tasks)
              /\ \A i \in 1..Len(state.tasks) :
                    state.tasks[i].id # lastAction'.id => state'.tasks[i] = state.tasks[i]
         [] lastAction'.type \in {"DELETE_TASK", "CLEAR_COMPLETED"} ->
              IsSubsequence(state'.tasks, state.tasks)
         [] OTHER -> state'.tasks = state.tasks]_vars

\* three tasks were added and a delete or clear-completed took one of the first two
\* out: the two that remain are the store's last task and one added before it
C26_Witness ==
    /\ lastAction.type \in {"DELETE_TASK", "CLEAR_COMPLETED"}
    /\ Len(state.tasks) = 2
    /\ Cardinality(issued) = 3
    /\ state.tasks[2] = taskMap[Len(taskMap)].v
    /\ state.tasks[1].id # state.tasks[2].id

====
